---- MODULE Spec2Model ----
(***************************************************************************)
(* Batch orchestration of mineru-k8s: process_paper.py drives, folder by   *)
(* folder, the batched conversion implemented in mineru_vlm.py.            *)
(*                                                                         *)
(* The input tree (subfolders and their PDF files) and the output tree     *)
(* (disk) are the environment; one run of process_folder_structure is the  *)
(* sequence Start, VisitFolder, CallParseDoc, FormBatch, ConvertFile,      *)
(* DoParseReturn, ParseDocReturn, ..., Summary.                            *)
(***************************************************************************)
EXTENDS Integers, Sequences, FiniteSets, TLC

\* ------------------------------------------------------------------ bounds
MaxGroups == 2
MaxPdfs == 3
MaxBatchSize == 2
MaxRuns == 2
ResumeGroups == 1
ResumePdfs == 1
MaxSortFolders == 3

\* --------------------------------------------------------------- constants
SentinelYear == 1900
InterBatchDelay == 2
InterGroupDelay == 3

\* ------------------------------------------------------------ folder names
\* A folder name is a sequence of tokens; a token is either a YYYY-MM-DD
\* shaped substring (kind "date") or any other text (kind "text").
DateTok(y, m, d) == [kind |-> "date", y |-> y, m |-> m, d |-> d]
TextTok == [kind |-> "text", y |-> 0, m |-> 0, d |-> 0]

Name_2020_A == <<DateTok(2020, 1, 1), TextTok>>
Name_2022_B == <<DateTok(2022, 6, 1), TextTok>>
Name_no_date_C == <<TextTok>>

FolderNames == {Name_2020_A, Name_2022_B, Name_no_date_C}

\* further names, for sort_folders_by_date_desc taken alone
Name_2020_span == <<DateTok(2020, 1, 1), DateTok(2020, 3, 31), TextTok>>
Name_text_2023 == <<TextTok, DateTok(2023, 12, 31)>>
Name_1850_old == <<DateTok(1850, 7, 4), TextTok>>
Name_1900_0101 == <<DateTok(1900, 1, 1), TextTok>>
Name_2099_13_40_bad == <<DateTok(2099, 13, 40), TextTok>>
Name_bad_then_2021 == <<DateTok(2021, 2, 30), DateTok(2021, 3, 1)>>
Name_0000_0101 == <<DateTok(0, 1, 1), TextTok>>

SortNames == FolderNames \cup
    {Name_2020_span, Name_text_2023, Name_1850_old, Name_1900_0101,
     Name_2099_13_40_bad, Name_bad_then_2021, Name_0000_0101}

SentinelDate == [y |-> SentinelYear, m |-> 1, d |-> 1]

DaysInMonth(y, m) ==
    IF m \in {4, 6, 9, 11} THEN 30
    ELSE IF m = 2
         THEN (IF (y % 4 = 0 /\ y % 100 # 0) \/ y % 400 = 0 THEN 29 ELSE 28)
         ELSE 31

\* datetime.strptime(s, '%Y-%m-%d') succeeds
ValidDate(t) ==
    /\ t.y >= 1
    /\ t.m \in 1..12
    /\ t.d >= 1
    /\ t.d <= DaysInMonth(t.y, t.m)

\* re.findall(date_pattern, folder_name): the date-shaped tokens, in order
FindAllDates(name) == SelectSeq(name, LAMBDA t : t.kind = "date")

\* an extraction that takes the last match
extract_date_last_match(name) ==
    LET dates == FindAllDates(name)
    IN  IF dates # <<>>
        THEN IF ValidDate(dates[Len(dates)])
             THEN [y |-> dates[Len(dates)].y, m |-> dates[Len(dates)].m,
                   d |-> dates[Len(dates)].d]
             ELSE SentinelDate
        ELSE SentinelDate

\* an extraction that does not validate the match
extract_date_unvalidated(name) ==
    LET dates == FindAllDates(name)
    IN  IF dates # <<>>
        THEN [y |-> dates[1].y, m |-> dates[1].m, d |-> dates[1].d]
        ELSE SentinelDate

extract_date_from_folder_name(name) ==
    LET dates == FindAllDates(name)
    IN  IF dates # <<>>
        THEN IF ValidDate(dates[1])
             THEN [y |-> dates[1].y, m |-> dates[1].m, d |-> dates[1].d]
             ELSE SentinelDate
        ELSE SentinelDate

\* datetime comparison
DateLess(a, b) ==
    \/ a.y < b.y
    \/ a.y = b.y /\ a.m < b.m
    \/ a.y = b.y /\ a.m = b.m /\ a.d < b.d

\* list.sort(key=..., reverse=True): stable, descending.  Insert p after
\* every element whose key is not smaller than p's.
\* an insertion that puts p before the elements with an equal key
RECURSIVE InsertDescUnstable(_, _)
InsertDescUnstable(sorted, p) ==
    IF sorted = <<>> THEN <<p>>
    ELSE IF ~DateLess(p.date, sorted[1].date)
         THEN <<p>> \o sorted
         ELSE <<sorted[1]>> \o InsertDescUnstable(Tail(sorted), p)

RECURSIVE InsertDesc(_, _)
InsertDesc(sorted, p) ==
    IF sorted = <<>> THEN <<p>>
    ELSE IF DateLess(sorted[1].date, p.date)
         THEN <<p>> \o sorted
         ELSE <<sorted[1]>> \o InsertDesc(Tail(sorted), p)

RECURSIVE SortDesc(_)
SortDesc(pairs) ==
    IF pairs = <<>> THEN <<>>
    ELSE InsertDesc(SortDesc(SubSeq(pairs, 1, Len(pairs) - 1)), pairs[Len(pairs)])

\* lines 49-53: the (path, date) pairs, in input order
FolderDatePairs(folder_paths, names) ==
    [k \in 1..Len(folder_paths) |->
        [path |-> folder_paths[k],
         date |-> extract_date_from_folder_name(names[folder_paths[k]])]]

\* lines 56-59: the paths of the sorted pairs
SortedPaths(pairs) ==
    LET s == SortDesc(pairs) IN [k \in 1..Len(s) |-> s[k].path]

\* an ordering that keeps the folders as listed
sort_folders_as_listed(folder_paths, names) == folder_paths

\* folder_paths: sequence of folder ids; names: id -> name
sort_folders_by_date_desc(folder_paths, names) ==
    LET folder_date_pairs ==
            [k \in 1..Len(folder_paths) |->
                [path |-> folder_paths[k],
                 date |-> extract_date_from_folder_name(names[folder_paths[k]])]]
        s == SortDesc(folder_date_pairs)
    IN  [k \in 1..Len(s) |-> s[k].path]

\* ------------------------------------------------------------- output tree
\* Entries of {output_root}/{group}/{stem}/vlm.
Artifacts == <<"layout.pdf", "origin.pdf", "md", "content_list.json",
               "middle.json", "model_output.txt">>
ForeignDir == "backup.json/"
ImagesDir == "images/"
Entries == {Artifacts[k] : k \in 1..Len(Artifacts)} \cup {ForeignDir, ImagesDir}

\* Path.is_file()
is_file(e) == e \notin {ForeignDir, ImagesDir}

\* Path.suffix
suffix(e) ==
    CASE e = "layout.pdf" -> ".pdf"
      [] e = "origin.pdf" -> ".pdf"
      [] e = "md" -> ".md"
      [] e = "content_list.json" -> ".json"
      [] e = "middle.json" -> ".json"
      [] e = "model_output.txt" -> ".txt"
      [] e = ForeignDir -> ".json"
      [] OTHER -> ""

ResultSuffixes == {".md", ".json", ".txt"}

\* the state of {output_root}/{group}/{stem}
Absent == [dir |-> FALSE, vlm |-> FALSE, entries |-> {}]
DirOnly == [dir |-> TRUE, vlm |-> FALSE, entries |-> {}]
VlmEmpty == [dir |-> TRUE, vlm |-> TRUE, entries |-> {}]
VlmForeignDir == [dir |-> TRUE, vlm |-> TRUE, entries |-> {ForeignDir}]
VlmMd == [dir |-> TRUE, vlm |-> TRUE, entries |-> {"md"}]

\* what a run may find for one item: nothing, a vlm directory holding only a
\* directory whose name ends in .json, a vlm directory holding {stem}.md
InitOutStates == {Absent, VlmForeignDir, VlmMd}
ResumeOutStates == {Absent, DirOnly, VlmEmpty, VlmForeignDir, VlmMd}

\* a completion check that takes any entry, file or not
has_results_any_entry(out) ==
    /\ out.dir
    /\ out.vlm
    /\ \E e \in out.entries : suffix(e) \in ResultSuffixes

\* lines 146-156: the completion check of one PDF
has_results(out) ==
    /\ out.dir
    /\ out.vlm
    /\ \E e \in out.entries : is_file(e) /\ suffix(e) \in ResultSuffixes

\* ---------------------------------------------------------- configuration
\* the per-artifact dump toggles of do_parse, in the order they are honoured
DumpFlags == <<"f_draw_layout_bbox", "f_dump_orig_pdf", "f_dump_md",
               "f_dump_content_list", "f_dump_middle_json",
               "f_dump_model_output">>
DumpFlagSet == {DumpFlags[k] : k \in 1..Len(DumpFlags)}

SupportedBackend == "vlm-transformers"

\* <<parsing_config holds an unknown key, backend>>: the defaults, a key
\* parse_doc does not accept, a backend do_parse does not support
ConfigChoices == {<<FALSE, SupportedBackend>>, <<TRUE, SupportedBackend>>,
                  <<FALSE, "pipeline">>}

\* ------------------------------------------------------------------- state
VARIABLES
    pc,                 \* where the run is
    run,                \* number of the current run over the same roots
    input_exists,       \* input_path.exists()
    subfolders,         \* names of the subfolders, in iterdir() order
    pdf_count,          \* folder id -> number of *.pdf files in it
    disk,               \* <<folder id, pdf index>> -> state of its output dir
    batch_size,         \* batch_size
    flags,              \* the dump toggles that are enabled
    unknown_kwarg,      \* parsing_config holds a key parse_doc does not take
    backend,            \* backend handed to do_parse
    folder_date_pairs,  \* the pairs sort_folders_by_date_desc built
    sorted_subfolders,  \* folder ids, in processing order
    folder_idx,         \* 0-based index into sorted_subfolders
    total_pdfs, total_skipped, total_processed, skipped_folders,
    filtered_pdf_files, \* pdf indices of the current folder still to parse
    total_batches, batch_idx, current_batch,
    file_name_list,     \* the files of the batch that were read
    idx,                \* 0-based position of do_parse in file_name_list
    summary,            \* the final statistics, once logged
    hist                \* history of the run, for the properties only

vars == <<pc, run, input_exists, subfolders, pdf_count, disk, batch_size, flags,
          unknown_kwarg, backend, folder_date_pairs, sorted_subfolders,
          folder_idx, total_pdfs,
          total_skipped, total_processed, skipped_folders, filtered_pdf_files,
          total_batches, batch_idx, current_batch, file_name_list, idx,
          summary, hist>>

env == <<input_exists, subfolders, pdf_count, batch_size, flags, unknown_kwarg,
         backend>>
stats == <<total_pdfs, total_skipped, total_processed, skipped_folders>>
pdLocals == <<total_batches, batch_idx, current_batch, file_name_list, idx>>

Folders == 1..Len(subfolders)
Items == {it \in Folders \X (1..MaxPdfs) : it[2] <= pdf_count[it[1]]}
PdfFiles(f) == [i \in 1..pdf_count[f] |-> i]

NoSummary ==
    [logged |-> FALSE, total_pdfs |-> 0, total_skipped |-> 0,
     total_processed |-> 0, skipped_folders |-> 0, processed_folders |-> 0]

\* what the run has done so far (never read by the program)
EmptyHist ==
    [disk0 |-> <<>>,        \* the output tree when the run started
     visited |-> <<>>,      \* folder ids whose loop body was entered
     filtered |-> {},       \* items put into filtered_pdf_files
     handed |-> {},         \* items passed to parse_doc in path_list
     raised |-> {},         \* folders whose parse_doc call raised
     returned |-> {},       \* folders whose parse_doc call returned
     read_failed |-> {},    \* items whose read_fn raised
     attempted |-> {},      \* items do_parse started to convert
     converted |-> {},      \* items do_parse converted without an exception
     batches |-> <<>>,      \* the batches parse_doc formed in the current call
     events |-> <<>>,       \* do_parse calls and sleeps, in order
     killed_writing |-> {}, \* items whose artifacts were being written at a kill
     done_before |-> {},    \* items converted in an earlier run
     partial_before |-> {}] \* items an earlier run was killed while writing

RECURSIVE SumCounts(_, _)
SumCounts(cnt, n) == IF n = 0 THEN 0 ELSE cnt[n] + SumCounts(cnt, n - 1)

\* input_path.iterdir(): any at most n of the folder names, as listed
ListingOrder == <<Name_2020_A, Name_2022_B, Name_no_date_C>>
Listings(n) ==
    {SelectSeq(ListingOrder, LAMBDA x : x \in S) :
        S \in {T \in SUBSET FolderNames : Cardinality(T) <= n}}

ItemsOf(cnt, g) == {it \in (1..g) \X (1..MaxPdfs) : it[2] <= cnt[it[1]]}

RunInit ==
    /\ pc = "start"
    /\ folder_date_pairs = <<>>
    /\ sorted_subfolders = <<>>
    /\ folder_idx = 0
    /\ total_pdfs = 0
    /\ total_skipped = 0
    /\ total_processed = 0
    /\ skipped_folders = 0
    /\ filtered_pdf_files = <<>>
    /\ total_batches = 0
    /\ batch_idx = 0
    /\ current_batch = <<>>
    /\ file_name_list = <<>>
    /\ idx = 0
    /\ summary = NoSummary

\* An input tree of at most MaxGroups folders holding at most MaxPdfs PDF
\* files in all, over an output tree left by earlier runs.
TreeInit(maxGroups, maxPdfs, outStates) ==
    /\ input_exists \in BOOLEAN
    /\ subfolders \in (IF input_exists THEN Listings(maxGroups) ELSE {<<>>})
    /\ pdf_count \in {c \in [1..Len(subfolders) -> 0..maxPdfs] :
                        SumCounts(c, Len(subfolders)) <= maxPdfs}
    /\ disk \in [ItemsOf(pdf_count, Len(subfolders)) -> outStates]

Init ==
    /\ TreeInit(MaxGroups, MaxPdfs, InitOutStates)
    /\ batch_size \in 1..MaxBatchSize
    /\ flags = {"f_dump_md"}   \* the markdown dump alone
    /\ \E c \in ConfigChoices : unknown_kwarg = c[1] /\ backend = c[2]
    /\ run = 1
    /\ hist = [EmptyHist EXCEPT !.disk0 = disk]
    /\ RunInit

\* ---------------------------------------------------------------- helpers
CurrentFolder == sorted_subfolders[folder_idx + 1]

Min(a, b) == IF a < b THEN a ELSE b

SeqToSet(s) == {s[k] : k \in 1..Len(s)}

DoParseEvent(f, b) == [type |-> "do_parse", folder |-> f, arg |-> b]
SleepEvent(f, secs) == [type |-> "sleep", folder |-> f, arg |-> secs]

\* lines 139-168: the PDF files of folder f without a finished result
FilterPdfFiles(f, pdf_files) ==
    SelectSeq(pdf_files, LAMBDA i : ~has_results(disk[<<f, i>>]))

\* a batch count that rounds down
TotalBatchesFloor(n, b) == n \div b

\* line 226
TotalBatches(n, b) == (n + b - 1) \div b

\* lines 230-232: path_list[start_idx:end_idx] of batch batch_idx (0-based)
BatchOf(path_list, b, bidx) ==
    LET start_idx == bidx * b
        end_idx == Min(start_idx + b, Len(path_list))
    IN  SubSeq(path_list, start_idx + 1, end_idx)

\* lines 84-149: the steps of one conversion that touch the output tree, in
\* order: prepare_env, vlm_doc_analyze, then the enabled dumps
EnabledDumps(fl) ==
    SelectSeq([k \in 1..Len(DumpFlags) |-> k], LAMBDA k : DumpFlags[k] \in fl)

NumSteps(fl) == 2 + Len(EnabledDumps(fl))

\* the output directory of one item after the first n steps of a conversion
AfterSteps(out, fl, n) ==
    IF n = 0 THEN out
    ELSE [dir |-> TRUE,
          vlm |-> TRUE,
          entries |-> out.entries \cup {ImagesDir}
              \cup {Artifacts[EnabledDumps(fl)[k]] : k \in 1..(n - 2)}]

\* ----------------------------------------------------------------- actions
\* process_folder_structure, lines 88-114
Start ==
    /\ pc = "start"
    /\ IF ~input_exists \/ subfolders = <<>>
       THEN /\ pc' = "returned"
            /\ UNCHANGED <<folder_date_pairs, sorted_subfolders, folder_idx,
                           stats>>
       ELSE /\ folder_date_pairs' =
                  FolderDatePairs([k \in 1..Len(subfolders) |-> k], subfolders)
            /\ sorted_subfolders' =
                  sort_folders_by_date_desc([k \in 1..Len(subfolders) |-> k],
                                            subfolders)
            /\ folder_idx' = 0
            /\ total_pdfs' = 0
            /\ total_skipped' = 0
            /\ total_processed' = 0
            /\ skipped_folders' = 0
            /\ pc' = "folder"
    /\ UNCHANGED <<run, env, disk, filtered_pdf_files, pdLocals, summary, hist>>

\* lines 127-129: a folder without PDF files
NoPdfFiles(f) ==
    /\ hist' = [hist EXCEPT !.visited = Append(@, f)]
    /\ folder_idx' = folder_idx + 1
    /\ pc' = "folder"
    /\ UNCHANGED <<stats, filtered_pdf_files>>

\* a skip that still pauses before the next folder
SkipWholeFolderThenSleeps(f) ==
    /\ hist' = [hist EXCEPT
                   !.visited = Append(@, f),
                   !.events = IF folder_idx < Len(sorted_subfolders) - 1
                              THEN Append(@, SleepEvent(f, InterGroupDelay))
                              ELSE @]
    /\ skipped_folders' = skipped_folders + 1
    /\ folder_idx' = folder_idx + 1
    /\ pc' = "folder"

\* lines 174-177: every PDF of the folder has a result
SkipWholeFolder(f) ==
    /\ hist' = [hist EXCEPT !.visited = Append(@, f)]
    /\ skipped_folders' = skipped_folders + 1
    /\ folder_idx' = folder_idx + 1
    /\ pc' = "folder"

\* process_folder_structure, lines 117-179: one folder up to the parse_doc call
VisitFolder ==
    /\ pc = "folder"
    /\ folder_idx < Len(sorted_subfolders)
    /\ LET f == CurrentFolder
           pdf_files == PdfFiles(f)
           filtered == FilterPdfFiles(f, pdf_files)
           skipped_count == Len(pdf_files) - Len(filtered)
       IN  IF pdf_files = <<>>
           THEN NoPdfFiles(f)
           ELSE /\ total_pdfs' = total_pdfs + Len(pdf_files)
                /\ total_skipped' = total_skipped + skipped_count
                /\ filtered_pdf_files' = filtered
                /\ UNCHANGED total_processed
                /\ IF filtered = <<>>
                   THEN SkipWholeFolder(f)
                   ELSE /\ hist' = [hist EXCEPT
                               !.visited = Append(@, f),
                               !.filtered = @ \cup
                                   {<<f, filtered[k]>> : k \in 1..Len(filtered)}]
                        /\ pc' = "call_parse_doc"
                        /\ UNCHANGED <<skipped_folders, folder_idx>>
    /\ UNCHANGED <<run, env, disk, folder_date_pairs, sorted_subfolders, pdLocals, summary>>

\* process_folder_structure, lines 202-211
Summary ==
    /\ pc = "folder"
    /\ folder_idx = Len(sorted_subfolders)
    /\ summary' = [logged |-> TRUE,
                   total_pdfs |-> total_pdfs,
                   total_skipped |-> total_skipped,
                   total_processed |-> total_processed,
                   skipped_folders |-> skipped_folders,
                   processed_folders |-> Len(sorted_subfolders) - skipped_folders]
    /\ pc' = "done"
    /\ UNCHANGED <<run, env, disk, folder_date_pairs, sorted_subfolders, folder_idx, stats,
                   filtered_pdf_files, pdLocals, hist>>

\* a handler that lets the exception leave process_folder_structure
GroupFailedAborts(f) ==
    /\ pc' = "aborted"
    /\ UNCHANGED <<folder_idx, stats>>

\* a driver that counts the files before it calls parse_doc
GroupFailedCountsProcessed(f) ==
    /\ total_processed' = total_processed + Len(filtered_pdf_files)
    /\ folder_idx' = folder_idx + 1
    /\ pc' = "folder"
    /\ UNCHANGED <<total_pdfs, total_skipped, skipped_folders>>

\* lines 192-194: the parse_doc call of folder f raised
GroupFailed(f) ==
    /\ folder_idx' = folder_idx + 1
    /\ pc' = "folder"
    /\ UNCHANGED stats

\* process_folder_structure, lines 182-194, and parse_doc, lines 205-227
CallParseDoc ==
    /\ pc = "call_parse_doc"
    /\ LET f == CurrentFolder
           path_list == {<<f, filtered_pdf_files[k]>> :
                            k \in 1..Len(filtered_pdf_files)}
       IN  IF unknown_kwarg
           THEN \* the call raises TypeError before parse_doc's own try
                /\ hist' = [hist EXCEPT !.handed = @ \cup path_list,
                                        !.raised = @ \cup {f}]
                /\ GroupFailed(f)
                /\ UNCHANGED <<total_batches, batch_idx>>
           ELSE /\ hist' = [hist EXCEPT !.handed = @ \cup path_list,
                                        !.batches = <<>>]
                /\ total_batches' =
                       TotalBatches(Len(filtered_pdf_files), batch_size)
                /\ batch_idx' = 0
                /\ pc' = "batch"
                /\ UNCHANGED <<folder_idx, stats>>
    /\ UNCHANGED <<run, env, disk, folder_date_pairs, sorted_subfolders, filtered_pdf_files,
                   current_batch, file_name_list, idx, summary>>

\* a parse_doc that calls do_parse for a batch none of whose files was read
FormBatchAlwaysCalls ==
    /\ pc = "batch"
    /\ batch_idx < total_batches
    /\ LET f == CurrentFolder
           batch == BatchOf(filtered_pdf_files, batch_size, batch_idx)
       IN  \E ok \in SUBSET (1..Len(batch)) :
              LET names == SelectSeq(batch, LAMBDA i :
                               \E k \in ok : batch[k] = i)
                  bad == {<<f, batch[k]>> : k \in (1..Len(batch)) \ ok}
              IN  /\ current_batch' = batch
                  /\ file_name_list' = names
                  /\ hist' = [hist EXCEPT
                                 !.batches = Append(@, batch),
                                 !.read_failed = @ \cup bad,
                                 !.events =
                                    Append(@, DoParseEvent(f, batch_idx))]
                  /\ idx' = 0
                  /\ pc' = "do_parse"
                  /\ UNCHANGED batch_idx
    /\ UNCHANGED <<run, env, disk, folder_date_pairs, sorted_subfolders, folder_idx, stats,
                   filtered_pdf_files, total_batches, summary>>

\* parse_doc, lines 229-259: form one batch and read its files
FormBatch ==
    /\ pc = "batch"
    /\ batch_idx < total_batches
    /\ LET f == CurrentFolder
           batch == BatchOf(filtered_pdf_files, batch_size, batch_idx)
       IN  \E ok \in SUBSET (1..Len(batch)) :
              LET names == SelectSeq(batch, LAMBDA i :
                               \E k \in ok : batch[k] = i)
                  bad == {<<f, batch[k]>> : k \in (1..Len(batch)) \ ok}
              IN  /\ current_batch' = batch
                  /\ file_name_list' = names
                  /\ IF names = <<>>
                     THEN \* lines 255-257
                          /\ hist' = [hist EXCEPT
                                         !.batches = Append(@, batch),
                                         !.read_failed = @ \cup bad]
                          /\ batch_idx' = batch_idx + 1
                          /\ pc' = "batch"
                          /\ UNCHANGED idx
                     ELSE \* line 262
                          /\ hist' = [hist EXCEPT
                                         !.batches = Append(@, batch),
                                         !.read_failed = @ \cup bad,
                                         !.events =
                                            Append(@, DoParseEvent(f, batch_idx))]
                          /\ idx' = 0
                          /\ pc' = "do_parse"
                          /\ UNCHANGED batch_idx
    /\ UNCHANGED <<run, env, disk, folder_date_pairs, sorted_subfolders, folder_idx, stats,
                   filtered_pdf_files, total_batches, summary>>

\* a do_parse whose handler leaves the loop instead of continuing
ConvertFileAbortsBatch ==
    /\ pc = "do_parse"
    /\ backend = SupportedBackend
    /\ idx < Len(file_name_list)
    /\ LET item == <<CurrentFolder, file_name_list[idx + 1]>>
       IN  \E n \in 0..NumSteps(flags) :
              /\ disk' = [disk EXCEPT ![item] = AfterSteps(@, flags, n)]
              /\ hist' = [hist EXCEPT
                             !.attempted = @ \cup {item},
                             !.converted = IF n = NumSteps(flags)
                                           THEN @ \cup {item} ELSE @]
              /\ idx' = IF n = NumSteps(flags)
                        THEN idx + 1 ELSE Len(file_name_list)
    /\ UNCHANGED <<pc, run, env, folder_date_pairs, sorted_subfolders, folder_idx, stats,
                   filtered_pdf_files, total_batches, batch_idx, current_batch,
                   file_name_list, summary>>

\* do_parse, lines 73-155: one file of the batch
ConvertFile ==
    /\ pc = "do_parse"
    /\ backend = SupportedBackend
    /\ idx < Len(file_name_list)
    /\ LET item == <<CurrentFolder, file_name_list[idx + 1]>>
       IN  \E n \in 0..NumSteps(flags) :
              \* n steps are done; an exception in step n + 1, lines 153-155
              /\ disk' = [disk EXCEPT ![item] = AfterSteps(@, flags, n)]
              /\ hist' = [hist EXCEPT
                             !.attempted = @ \cup {item},
                             !.converted = IF n = NumSteps(flags)
                                           THEN @ \cup {item} ELSE @]
    /\ idx' = idx + 1
    /\ UNCHANGED <<pc, run, env, folder_date_pairs, sorted_subfolders, folder_idx, stats,
                   filtered_pdf_files, total_batches, batch_idx, current_batch,
                   file_name_list, summary>>

\* a parse_doc that goes from batch to batch without a pause
DoParseReturnNoSleep ==
    /\ pc = "do_parse"
    /\ backend # SupportedBackend \/ idx = Len(file_name_list)
    /\ hist' = hist
    /\ file_name_list' = <<>>
    /\ batch_idx' = batch_idx + 1
    /\ pc' = "batch"
    /\ UNCHANGED <<run, env, disk, folder_date_pairs, sorted_subfolders, folder_idx, stats,
                   filtered_pdf_files, total_batches, current_batch, idx,
                   summary>>

\* do_parse returns (line 155 or 158); parse_doc, lines 282-290
DoParseReturn ==
    /\ pc = "do_parse"
    /\ backend # SupportedBackend \/ idx = Len(file_name_list)
    /\ hist' = IF batch_idx < total_batches - 1
               THEN [hist EXCEPT !.events =
                        Append(@, SleepEvent(CurrentFolder, InterBatchDelay))]
               ELSE hist
    /\ file_name_list' = <<>>
    /\ batch_idx' = batch_idx + 1
    /\ pc' = "batch"
    /\ UNCHANGED <<run, env, disk, folder_date_pairs, sorted_subfolders, folder_idx, stats,
                   filtered_pdf_files, total_batches, current_batch, idx,
                   summary>>

\* a driver that pauses after every folder, the last one too
ParseDocReturnAlwaysSleeps ==
    /\ pc = "batch"
    /\ batch_idx = total_batches
    /\ total_processed' = total_processed + Len(filtered_pdf_files)
    /\ hist' = [hist EXCEPT
                   !.returned = @ \cup {CurrentFolder},
                   !.events = Append(@, SleepEvent(CurrentFolder,
                                                   InterGroupDelay))]
    /\ folder_idx' = folder_idx + 1
    /\ pc' = "folder"
    /\ UNCHANGED <<run, env, disk, folder_date_pairs, sorted_subfolders, total_pdfs, total_skipped,
                   skipped_folders, filtered_pdf_files, pdLocals, summary>>

\* parse_doc returns (line 292); process_folder_structure, lines 189-200
ParseDocReturn ==
    /\ pc = "batch"
    /\ batch_idx = total_batches
    /\ total_processed' = total_processed + Len(filtered_pdf_files)
    /\ hist' = [hist EXCEPT
                   !.returned = @ \cup {CurrentFolder},
                   !.events = IF folder_idx < Len(sorted_subfolders) - 1
                              THEN Append(@, SleepEvent(CurrentFolder,
                                                        InterGroupDelay))
                              ELSE @]
    /\ folder_idx' = folder_idx + 1
    /\ pc' = "folder"
    /\ UNCHANGED <<run, env, disk, folder_date_pairs, sorted_subfolders, total_pdfs, total_skipped,
                   skipped_folders, filtered_pdf_files, pdLocals, summary>>

Next ==
    \/ Start
    \/ VisitFolder
    \/ Summary
    \/ CallParseDoc
    \/ FormBatch
    \/ ConvertFile
    \/ DoParseReturn
    \/ ParseDocReturn

Spec == Init /\ [][Next]_vars

\* ------------------------------------------------- a run and the next run
Running == pc \in {"start", "folder", "call_parse_doc", "batch", "do_parse"}
Ended == pc \in {"returned", "done", "killed"}

\* the process is killed
Kill ==
    /\ Running
    /\ pc' = "killed"
    /\ UNCHANGED <<run, env, disk, folder_date_pairs, sorted_subfolders, folder_idx, stats,
                   filtered_pdf_files, pdLocals, summary, hist>>

\* the process is killed while do_parse writes the artifacts of one file,
\* lines 104-149: the first k of the enabled dumps are on disk, not all
KillDuringDump ==
    /\ pc = "do_parse"
    /\ backend = SupportedBackend
    /\ idx < Len(file_name_list)
    /\ LET item == <<CurrentFolder, file_name_list[idx + 1]>>
       IN  \E k \in 0..(Len(EnabledDumps(flags)) - 1) :
              /\ disk' = [disk EXCEPT ![item] = AfterSteps(@, flags, 2 + k)]
              /\ hist' = [hist EXCEPT !.attempted = @ \cup {item},
                                      !.killed_writing = {item}]
    /\ pc' = "killed"
    /\ UNCHANGED <<run, env, folder_date_pairs, sorted_subfolders, folder_idx, stats,
                   filtered_pdf_files, pdLocals, summary>>

\* main() is started again over the same input and output roots
Restart ==
    /\ Ended
    /\ run < MaxRuns
    /\ run' = run + 1
    /\ pc' = "start"
    /\ folder_date_pairs' = <<>>
    /\ sorted_subfolders' = <<>>
    /\ folder_idx' = 0
    /\ total_pdfs' = 0
    /\ total_skipped' = 0
    /\ total_processed' = 0
    /\ skipped_folders' = 0
    /\ filtered_pdf_files' = <<>>
    /\ total_batches' = 0
    /\ batch_idx' = 0
    /\ current_batch' = <<>>
    /\ file_name_list' = <<>>
    /\ idx' = 0
    /\ summary' = NoSummary
    /\ hist' = [EmptyHist EXCEPT
                   !.disk0 = disk,
                   !.done_before = hist.done_before \cup hist.converted,
                   !.partial_before = hist.killed_writing]
    /\ UNCHANGED <<env, disk>>

InitResume ==
    /\ TreeInit(ResumeGroups, ResumePdfs, ResumeOutStates)
    /\ batch_size \in 1..MaxBatchSize
    /\ flags \in SUBSET DumpFlagSet
    /\ unknown_kwarg = FALSE
    /\ backend = SupportedBackend
    /\ run = 1
    /\ hist = [EmptyHist EXCEPT !.disk0 = disk]
    /\ RunInit

NextResume ==
    \/ Next
    \/ Kill
    \/ KillDuringDump
    \/ Restart

SpecResume == InitResume /\ [][NextResume]_vars

\* ------------------------------------- sort_folders_by_date_desc alone
\* the injective sequences of at most n of the names in S
NameLists(S, n) ==
    UNION {{q \in [1..k -> S] : \A i, j \in 1..k : i # j => q[i] # q[j]} :
              k \in 0..n}

\* sort_folders_by_date_desc is called with any list of distinct folders
InitSort ==
    /\ pc = "sort"
    /\ input_exists = TRUE
    /\ subfolders \in NameLists(SortNames, MaxSortFolders)
    /\ pdf_count = [k \in 1..Len(subfolders) |-> 0]
    /\ disk = <<>>
    /\ batch_size = 1
    /\ flags = {}
    /\ unknown_kwarg = FALSE
    /\ backend = SupportedBackend
    /\ run = 1
    /\ folder_date_pairs = <<>>
    /\ sorted_subfolders = <<>>
    /\ folder_idx = 0
    /\ total_pdfs = 0
    /\ total_skipped = 0
    /\ total_processed = 0
    /\ skipped_folders = 0
    /\ filtered_pdf_files = <<>>
    /\ total_batches = 0
    /\ batch_idx = 0
    /\ current_batch = <<>>
    /\ file_name_list = <<>>
    /\ idx = 0
    /\ summary = NoSummary
    /\ hist = EmptyHist

\* sort_folders_by_date_desc, lines 48-53
ExtractDates ==
    /\ pc = "sort"
    /\ folder_date_pairs' =
           FolderDatePairs([k \in 1..Len(subfolders) |-> k], subfolders)
    /\ pc' = "sort_pairs"
    /\ UNCHANGED <<run, env, disk, sorted_subfolders, folder_idx, stats,
                   filtered_pdf_files, pdLocals, summary, hist>>

\* sort_folders_by_date_desc, lines 56-70
SortPairs ==
    /\ pc = "sort_pairs"
    /\ sorted_subfolders' = SortedPaths(folder_date_pairs)
    /\ pc' = "sort_return"
    /\ UNCHANGED <<run, env, disk, folder_date_pairs, folder_idx, stats,
                   filtered_pdf_files, pdLocals, summary, hist>>

NextSort ==
    \/ ExtractDates
    \/ SortPairs

SpecSort == InitSort /\ [][NextSort]_vars

\* ------------------------------------------------------------- properties
FolderItems(f) == {<<f, i>> : i \in 1..pdf_count[f]}
VisitedFolders == SeqToSet(hist.visited)

\* the parse_doc call of folder f has been made
PastCall(f) ==
    \/ f \in hist.raised \cup hist.returned
    \/ pc \in {"batch", "do_parse"} /\ CurrentFolder = f

\* the output directory of an item holds a regular file with a result extension
HoldsResultFile(out) ==
    /\ out.vlm
    /\ \E e \in out.entries : is_file(e) /\ suffix(e) \in {".md", ".json", ".txt"}

\* the output directory of an item holds an entry with a result extension
HoldsResultEntry(out) ==
    /\ out.vlm
    /\ \E e \in out.entries : suffix(e) \in {".md", ".json", ".txt"}

IncompleteAtStart(f) == {it \in FolderItems(f) : ~HoldsResultFile(hist.disk0[it])}
FullyComplete(f) == pdf_count[f] > 0 /\ IncompleteAtStart(f) = {}

FailedConversions == hist.attempted \ hist.converted

\* processing folder f failed: its parse_doc call raised, or one of its
\* files could not be read or converted
GroupHasFailure(f) ==
    \/ f \in hist.raised
    \/ FolderItems(f) \cap (hist.read_failed \cup FailedConversions) # {}

\* C1: once a folder has failed, the run does not end before every later
\* folder of the order has been visited, and each later folder is filtered
\* and handed to parse_doc by its own output state alone.
C1_FailedGroupDoesNotAbort ==
    \A a \in 1..Len(sorted_subfolders) :
      \A b \in (a + 1)..Len(sorted_subfolders) :
        GroupHasFailure(sorted_subfolders[a]) =>
          LET g == sorted_subfolders[b]
          IN  /\ ~Running => b <= Len(hist.visited)
              /\ b <= Len(hist.visited) =>
                    /\ hist.visited[b] = g
                    /\ hist.filtered \cap FolderItems(g) = IncompleteAtStart(g)
              /\ PastCall(g) =>
                    hist.handed \cap FolderItems(g) = IncompleteAtStart(g)

C1_Witness ==
    /\ pc = "done"
    /\ \E a \in 1..Len(sorted_subfolders) :
         \E b \in (a + 1)..Len(sorted_subfolders) :
            /\ GroupHasFailure(sorted_subfolders[a])
            /\ hist.handed \cap FolderItems(sorted_subfolders[b]) # {}

\* C2: a run that has ended has logged the final statistics.
C2_SummaryAlwaysEmitted == ~Running => summary.logged

\* C3 as stated: an item is left out of the filtered list iff its vlm
\* directory holds an entry with extension .md, .json or .txt.
C3_CompleteIffResultEntry ==
    \A f \in VisitedFolders : \A it \in FolderItems(f) :
        it \notin hist.filtered <=> HoldsResultEntry(hist.disk0[it])

\* C3 amended: an item is left out of the filtered list, of the list handed
\* to parse_doc and of every batch iff its vlm directory holds a regular
\* file with extension .md, .json or .txt.
C3_CompleteIffResultFile ==
    \A f \in VisitedFolders : \A it \in FolderItems(f) :
        /\ it \notin hist.filtered <=> HoldsResultFile(hist.disk0[it])
        /\ PastCall(f) => (it \in hist.handed <=> it \in hist.filtered)
        /\ (pc \in {"batch", "do_parse"} /\ CurrentFolder = f) =>
              \A k \in 1..Len(hist.batches) :
                 it[2] \in SeqToSet(hist.batches[k]) => it \in hist.filtered

C3_Witness ==
    /\ pc = "do_parse"
    /\ \E x, y \in FolderItems(CurrentFolder) :
          /\ hist.disk0[x] = VlmForeignDir
          /\ x[2] \in SeqToSet(current_batch)
          /\ hist.disk0[y] = VlmMd
          /\ y \notin hist.handed

\* C4: an item whose artifacts the previous run was killed while writing is
\* filtered in again by the next run.
C4_PartialOutputNeverTrusted ==
    \A it \in hist.partial_before :
        it[1] \in VisitedFolders => it \in hist.filtered

\* C5: an item converted by an earlier run is never filtered in again.
C5_CompletedWorkNeverRedone ==
    \A it \in hist.done_before : it \notin hist.filtered

\* C6: after parse_doc has returned for a folder, every file handed to it
\* that comes after a file whose conversion failed was itself taken up:
\* do_parse started on it, or its own read failed.
C6_FailedDocumentDoesNotStopOthers ==
    \A f \in hist.returned :
      \A x \in FolderItems(f) \cap FailedConversions :
        \A y \in FolderItems(f) \cap hist.handed :
           y[2] > x[2] => y \in hist.attempted \cup hist.read_failed

C6_Witness ==
    \E f \in hist.returned :
        /\ batch_size = 2
        /\ <<f, 1>> \in FailedConversions
        /\ <<f, 2>> \in hist.attempted
        /\ <<f, 3>> \in hist.attempted

\* C7: the reported processed count is the number of items converted, and
\* the reported skipped count the number of items found complete.
C7_FailedItemsNotCounted ==
    summary.logged =>
        /\ summary.total_processed = Cardinality(hist.converted)
        /\ summary.total_skipped =
              Cardinality({it \in Items : /\ it[1] \in VisitedFolders
                                          /\ it \notin hist.filtered})

\* C8: the report satisfies discovered = skipped + processed + the filtered
\* items of the folders whose parse_doc call raised.
C8_StatisticsConsistent ==
    summary.logged =>
        summary.total_pdfs =
            summary.total_skipped + summary.total_processed
            + Cardinality({it \in hist.handed : it[1] \in hist.raised})

C8_Witness ==
    /\ summary.logged
    /\ hist.raised # {}
    /\ summary.total_skipped > 0

RECURSIVE Concat(_)
Concat(ss) == IF ss = <<>> THEN <<>> ELSE ss[1] \o Concat(Tail(ss))

\* the least k with k * b >= n
CeilDiv(n, b) == CHOOSE k \in 0..n : k * b >= n /\ (k = 0 \/ (k - 1) * b < n)

\* C9: when parse_doc has gone through its batches, it has formed
\* ceil(N/B) of them, all of size B but the last, which has the rest, and
\* together they are the list it was given.
C9_BatchPartition ==
    (pc = "batch" /\ batch_idx = total_batches) =>
        LET n == Len(filtered_pdf_files)
            bs == hist.batches
        IN  /\ Len(bs) = CeilDiv(n, batch_size)
            /\ \A k \in 1..(Len(bs) - 1) : Len(bs[k]) = batch_size
            /\ Len(bs) > 0 =>
                  Len(bs[Len(bs)]) = IF n % batch_size = 0
                                     THEN batch_size ELSE n % batch_size
            /\ Concat(bs) = filtered_pdf_files

C9_Witness ==
    /\ pc = "batch"
    /\ batch_idx = total_batches
    /\ Len(filtered_pdf_files) = 3
    /\ batch_size = 2

\* C10: a folder whose PDFs all have a result is counted as a skipped
\* folder, none of its files reaches parse_doc, and neither a do_parse call
\* nor a sleep is made for it.
C10_FullySkippedGroup ==
    /\ \A f \in VisitedFolders :
          FullyComplete(f) =>
             /\ hist.handed \cap FolderItems(f) = {}
             /\ \A k \in 1..Len(hist.events) : hist.events[k].folder # f
    /\ skipped_folders = Cardinality({f \in VisitedFolders : FullyComplete(f)})

C10_Witness ==
    /\ pc = "done"
    /\ Len(sorted_subfolders) > 1
    /\ FullyComplete(sorted_subfolders[1])
    /\ hist.handed # {}

\* the place of folder f in the processing order
PosInOrder(f) ==
    CHOOSE k \in 1..Len(sorted_subfolders) : sorted_subfolders[k] = f

IsIncreasing(q) == \A a, b \in 1..Len(q) : a < b => q[a] < q[b]

\* C11: folders are taken in descending order of their keys; the do_parse
\* calls follow the folder order and, within a folder, the batch order; the
\* files of a batch are consecutive files of the folder's filtered list, in
\* discovery order, and every file dispatched before them belongs to an
\* earlier folder or an earlier batch.
C11_DispatchOrder ==
    /\ \A a, b \in 1..Len(sorted_subfolders) :
          a < b =>
             ~DateLess(extract_date_from_folder_name(
                           subfolders[sorted_subfolders[a]]),
                       extract_date_from_folder_name(
                           subfolders[sorted_subfolders[b]]))
    /\ Len(hist.visited) <= Len(sorted_subfolders)
    /\ \A k \in 1..Len(hist.visited) : hist.visited[k] = sorted_subfolders[k]
    /\ \A k, l \in 1..Len(hist.events) :
          (k < l /\ hist.events[k].type = "do_parse"
                 /\ hist.events[l].type = "do_parse") =>
             \/ PosInOrder(hist.events[k].folder)
                    < PosInOrder(hist.events[l].folder)
             \/ /\ hist.events[k].folder = hist.events[l].folder
                /\ hist.events[k].arg < hist.events[l].arg
    /\ pc = "do_parse" =>
          /\ IsIncreasing(filtered_pdf_files)
          /\ current_batch # <<>>
          /\ \E s \in 1..Len(filtered_pdf_files) :
                current_batch =
                    SubSeq(filtered_pdf_files, s, s + Len(current_batch) - 1)
          /\ IsIncreasing(file_name_list)
          /\ SeqToSet(file_name_list) \subseteq SeqToSet(current_batch)
          /\ \A it \in hist.attempted :
                IF it[1] = CurrentFolder
                THEN \/ it[2] < current_batch[1]
                     \/ \E k \in 1..idx : file_name_list[k] = it[2]
                ELSE PosInOrder(it[1]) < folder_idx + 1

C11_Witness ==
    /\ pc = "do_parse"
    /\ folder_idx = 1
    /\ batch_idx = 1
    /\ subfolders[sorted_subfolders[1]] = Name_2022_B
    /\ subfolders[sorted_subfolders[2]] = Name_2020_A
    /\ \E x, y \in hist.attempted : x[1] # y[1]

\* C16: once a file of a folder could not be read, no later file of that
\* folder is dispatched to do_parse, and the folder's parse_doc call does
\* not end as a success.
C16_ReadFailureAbandonsGroup ==
    \A x \in hist.read_failed :
        /\ \A y \in FolderItems(x[1]) \cap hist.attempted : y[2] < x[2]
        /\ x[1] \notin hist.returned

\* the positions in the events of the inter-group sleep made for folder f
GroupSleeps(f) ==
    {k \in 1..Len(hist.events) :
        hist.events[k] = SleepEvent(f, InterGroupDelay)}

\* C17: for a folder whose parse_doc call went through its batches and
\* which is not the last of the order, exactly one inter-group sleep is
\* made, after every do_parse call and inter-batch sleep of the folder and
\* before anything is done for a later folder; for the last folder of the
\* order no inter-group sleep is made.
C17_InterGroupDelay ==
    /\ \A p \in 1..Len(sorted_subfolders) :
          LET f == sorted_subfolders[p]
          IN  IF f \in hist.returned /\ p < Len(sorted_subfolders)
              THEN /\ Cardinality(GroupSleeps(f)) = 1
                   /\ \A k \in GroupSleeps(f) : \A l \in 1..Len(hist.events) :
                         /\ (hist.events[l].folder = f /\ l # k) => l < k
                         /\ PosInOrder(hist.events[l].folder) > p => l > k
                   /\ Len(hist.visited) >= p
              ELSE GroupSleeps(f) = {}
    /\ \A f \in hist.returned :
          (pc = "folder" /\ folder_idx = PosInOrder(f)
                        /\ folder_idx < Len(sorted_subfolders)) =>
             hist.events[Len(hist.events)] = SleepEvent(f, InterGroupDelay)

C17_Witness ==
    /\ pc = "done"
    /\ Len(sorted_subfolders) = 2
    /\ hist.returned = {1, 2}
    /\ GroupSleeps(sorted_subfolders[1]) # {}

\* the batch numbers (0-based) of the do_parse calls made for folder f
DoParseCalls(f) ==
    LET ev == SelectSeq(hist.events,
                        LAMBDA e : e.type = "do_parse" /\ e.folder = f)
    IN  [k \in 1..Len(ev) |-> ev[k].arg]

ReadOk(f, b) == SelectSeq(b, LAMBDA i : <<f, i>> \notin hist.read_failed)

C19_AttemptedGroupsCount ==
    summary.logged =>
        summary.processed_folders =
            Cardinality(hist.raised \cup hist.returned)

\* C20: in the events of a run, every do_parse call that is followed by
\* anything is followed by a sleep, of 2 or 3 seconds: no two do_parse calls
\* come one after the other without a sleep between them.
C20_SleepBetweenCalls ==
    \A k \in 1..(Len(hist.events) - 1) :
        hist.events[k].type = "do_parse" =>
            /\ hist.events[k + 1].type = "sleep"
            /\ hist.events[k + 1].arg \in {2, 3}

C20_Witness ==
    /\ Len(hist.events) = 4
    /\ hist.events[1].type = "do_parse"
    /\ hist.events[2].type = "sleep"
    /\ hist.events[3].type = "sleep"
    /\ hist.events[4].type = "do_parse"
    /\ hist.events[4].folder # hist.events[1].folder
    /\ hist.read_failed # {}

\* the first YYYY-MM-DD shaped substring of a name, when there is one
HasMatch(name) == \E i \in 1..Len(name) : name[i].kind = "date"
FirstMatch(name) ==
    name[CHOOSE i \in 1..Len(name) :
            /\ name[i].kind = "date"
            /\ \A j \in 1..(i - 1) : name[j].kind # "date"]
IsCalendarDate(t) ==
    /\ t.y \in 1..9999
    /\ t.m \in 1..12
    /\ t.d \in 1..DaysInMonth(t.y, t.m)

\* the name carries a valid date / no date was found in it
Dated(name) == HasMatch(name) /\ IsCalendarDate(FirstMatch(name))
Undated(name) == ~Dated(name)

\* the place of input folder i in the sorted order
SortPos(i) ==
    CHOOSE k \in 1..Len(sorted_subfolders) : sorted_subfolders[k] = i

IsPermutation(q, n) ==
    /\ Len(q) = n
    /\ \A i \in 1..n : \E k \in 1..n : q[k] = i

\* C12: the sorted order is by date descending, and every folder in whose
\* name no date was found comes after every folder whose name carries a
\* valid date.
C12_SentinelAfterAllDated ==
    pc = "sort_return" =>
        /\ IsPermutation(sorted_subfolders, Len(subfolders))
        /\ \A a, b \in 1..Len(sorted_subfolders) :
              a < b => ~DateLess(folder_date_pairs[sorted_subfolders[a]].date,
                                 folder_date_pairs[sorted_subfolders[b]].date)
        /\ \A i, j \in 1..Len(subfolders) :
              (Dated(subfolders[i]) /\ Undated(subfolders[j]))
                  => SortPos(i) < SortPos(j)

\* C13: folders with equal keys keep their input order in the sorted order,
\* which is the one order the sort yields for this input.
C13_SortStable ==
    pc = "sort_return" =>
        /\ IsPermutation(sorted_subfolders, Len(subfolders))
        /\ \A i, j \in 1..Len(subfolders) :
              (i < j /\ folder_date_pairs[i].date = folder_date_pairs[j].date)
                  => SortPos(i) < SortPos(j)
        /\ sorted_subfolders =
              sort_folders_by_date_desc([k \in 1..Len(subfolders) |-> k],
                                        subfolders)

C13_Witness ==
    /\ pc = "sort_return"
    /\ \E i, j, k \in 1..Len(subfolders) :
          /\ i < j
          /\ subfolders[i] = Name_2099_13_40_bad
          /\ subfolders[j] = Name_no_date_C
          /\ k > j
          /\ subfolders[k] = Name_2022_B
    /\ SortPos(1) # 1

\* C14: the key of a folder is the date of the first YYYY-MM-DD substring
\* of its name, whatever matches follow, and the sentinel 1900-01-01 when
\* the name has no such substring.
C14_FirstMatchOrSentinel ==
    pc \in {"sort_pairs", "sort_return"} =>
        \A k \in 1..Len(subfolders) :
            LET name == subfolders[k]
                date == folder_date_pairs[k].date
            IN  /\ folder_date_pairs[k].path = k
                /\ ~HasMatch(name) => date = [y |-> 1900, m |-> 1, d |-> 1]
                /\ Dated(name) =>
                       date = [y |-> FirstMatch(name).y,
                               m |-> FirstMatch(name).m,
                               d |-> FirstMatch(name).d]

C14_Witness ==
    /\ pc = "sort_pairs"
    /\ \E i, j, k \in 1..Len(subfolders) :
          /\ subfolders[i] = Name_2020_span
          /\ folder_date_pairs[i].date = [y |-> 2020, m |-> 1, d |-> 1]
          /\ subfolders[j] = Name_text_2023
          /\ subfolders[k] = Name_no_date_C
          /\ folder_date_pairs[k].date = SentinelDate

\* C15: a folder whose first YYYY-MM-DD shaped substring is not a calendar
\* date gets the sentinel 1900-01-01 as its key, and is in the sorted order
\* like every other folder.
C15_InvalidDateIsSentinel ==
    \A k \in 1..Len(subfolders) :
        LET name == subfolders[k]
        IN  (HasMatch(name) /\ ~IsCalendarDate(FirstMatch(name))) =>
               /\ pc \in {"sort_pairs", "sort_return"} =>
                     folder_date_pairs[k].date = [y |-> 1900, m |-> 1, d |-> 1]
               /\ pc = "sort_return" =>
                     /\ Len(sorted_subfolders) = Len(subfolders)
                     /\ \E p \in 1..Len(sorted_subfolders) :
                           sorted_subfolders[p] = k

C15_Witness ==
    /\ pc = "sort_return"
    /\ \E i, j, k \in 1..Len(subfolders) :
          /\ subfolders[i] = Name_2099_13_40_bad
          /\ subfolders[j] = Name_bad_then_2021
          /\ subfolders[k] = Name_2022_B
          /\ SortPos(k) = 1

====
